---- MODULE Spec2Model ----
(***************************************************************************)
(* Model of berrydb's FreePageList (src/src/free_page_list.cc): the        *)
(* on-disk free page list with its three operations Pop, Push and Merge.   *)
(*                                                                         *)
(* A page is modelled by its two header fields and its array of 8-byte     *)
(* entry slots.  Bytes above next_entry_offset are kept as the code leaves *)
(* them (Pop only rewrites the offset).  size_t arithmetic is done modulo  *)
(* SizeMod; a stored 64-bit id of SizeMod or more does not fit size_t (a   *)
(* 32-bit build), which only a page overwritten from outside can hold.     *)
(* The caller is an allocator that only frees (pushes) page ids it         *)
(* currently holds and holds every id a Pop hands back.                    *)
(***************************************************************************)
EXTENDS Integers, Sequences, FiniteSets, Bags, TLC

\* ---- bounds --------------------------------------------------------------
NumPages == 7          \* page ids of the store: 1..NumPages
EntriesPerPage == 2    \* entry slots per list page
MaxPops == 2           \* Pop calls on non-empty lists in one behaviour
HeldPages == 4         \* pages the caller holds at the start of a run with corruption

\* ---- program constants ---------------------------------------------------
SizeMod == 65536                      \* size_t values are 0..SizeMod-1
kEntrySize == 8
kFirstEntryOffset == 16
kInvalidPageId == SizeMod - 1         \* the maximum representable id
PageSize == kFirstEntryOffset + EntriesPerPage * kEntrySize

PageIds == 1..NumPages
Lists == {1, 2}
EntrySlots == {kFirstEntryOffset + kEntrySize * i : i \in 0..(EntriesPerPage - 1)}

kSuccess == "kSuccess"
kIoError == "kIoError"
kDataCorrupted == "kDataCorrupted"
kDatabaseTooLarge == "kDatabaseTooLarge"

VARIABLES
    pages,      \* the store's pages: header fields and entry slots
    lists,      \* the FreePageList handles
    owned,      \* page ids the caller holds (allocated pages)
    pops,       \* Pop calls made on non-empty lists
    hist,       \* per list: pushes minus pops that returned an id; merge use;
                \* the ids pushed and not yet popped, latest first
    corrupted,  \* pages whose next_entry_offset was overwritten from outside
    last,       \* the latest call: operation, arguments, returned values
    prev        \* the call before it, when that was a Push
vars == <<pages, lists, owned, pops, hist, corrupted, last, prev>>

\* ---- FreePageListFormat --------------------------------------------------
NextEntryOffset(page) == page.next_entry_offset
SetNextEntryOffset(offset, page) == [page EXCEPT !.next_entry_offset = offset]
NextPageId64(page) == page.next_page_id
SetNextPageId64(id, page) == [page EXCEPT !.next_page_id = id]

IsCorruptEntryOffset(offset, page_size) ==
    \/ offset < kFirstEntryOffset
    \/ offset > page_size
    \/ (offset - kFirstEntryOffset) % kEntrySize # 0

\* ---- span helpers --------------------------------------------------------
\* subspan(offset, len) lies wholly inside the page's bytes
InPage(offset, len) == offset >= 0 /\ offset + len <= PageSize

\* LoadUint64 of an entry; a read outside the page yields an arbitrary value
LoadUint64(page, offset, garbage) ==
    IF offset \in EntrySlots THEN page.entry[offset] ELSE garbage

StoreUint64(value, page, offset) ==
    IF offset \in EntrySlots THEN [page EXCEPT !.entry[offset] = value] ELSE page

CopySpan(src, src_offset, dst, dst_offset, len) ==
    [dst EXCEPT !.entry = [s \in EntrySlots |->
        IF dst_offset <= s /\ s < dst_offset + len
        THEN LET f == src_offset + (s - dst_offset)
             IN IF f \in EntrySlots THEN src.entry[f] ELSE 0
        ELSE dst.entry[s]]]

\* ---- PagePool ------------------------------------------------------------
\* StorePage: fetching the sentinel id is a page-access failure; fetch number
\* k of a call fails when the pool is made to fail it (io = k).
StorePage(page_id, k, io) ==
    IF page_id = kInvalidPageId \/ k = io THEN kIoError ELSE kSuccess

\* ---- FreePageList --------------------------------------------------------
is_empty(list) == list.head_page_id = kInvalidPageId

Ret(status, page_id, pgs, list, oob) ==
    [status |-> status, page_id |-> page_id, pages |-> pgs, list |-> list,
     oob |-> oob]

\* mutant of PopNewTail: the tail is not cleared with the head
PopNewTail_Keep(new_head_page_id, tail_page_id) == tail_page_id

\* Pop, lines 57-61: the tail is cleared when the list becomes empty
PopNewTail(new_head_page_id, tail_page_id) ==
    IF new_head_page_id = kInvalidPageId THEN kInvalidPageId ELSE tail_page_id

\* Pop, lines 52-54 and 82-84: the 64-bit id survives the cast to size_t
FitsSizeT(id64) == id64 < SizeMod

\* Pop, line 74: size_t decrement
PopEntryOffset(next_entry_offset) ==
    (next_entry_offset - kEntrySize) % SizeMod

PopCall(pgs, list, garbage, io) ==
    IF is_empty(list) THEN Ret(kSuccess, kInvalidPageId, pgs, list, FALSE)
    ELSE IF StorePage(list.head_page_id, 1, io) # kSuccess
    THEN Ret(StorePage(list.head_page_id, 1, io), kInvalidPageId, pgs, list, FALSE)
    ELSE
      LET head_page == pgs[list.head_page_id]
          raw == NextEntryOffset(head_page)
      IN IF raw = kFirstEntryOffset
         THEN LET new_head_page_id == NextPageId64(head_page)
              IN IF ~FitsSizeT(new_head_page_id)
                 THEN Ret(kDatabaseTooLarge, kInvalidPageId, pgs, list, FALSE)
                 ELSE
                 Ret(kSuccess, list.head_page_id, pgs,
                     [list EXCEPT !.head_page_id = new_head_page_id,
                                  !.tail_page_id =
                                      PopNewTail(new_head_page_id, list.tail_page_id)],
                     FALSE)
         ELSE LET next_entry_offset == PopEntryOffset(raw)
              IN IF IsCorruptEntryOffset(next_entry_offset, PageSize)
                 THEN Ret(kDataCorrupted, kInvalidPageId, pgs, list, FALSE)
                 ELSE IF ~FitsSizeT(LoadUint64(head_page, next_entry_offset, garbage))
                 THEN Ret(kDatabaseTooLarge, kInvalidPageId, pgs, list,
                          ~InPage(next_entry_offset, 8))
                 ELSE Ret(kSuccess,
                          LoadUint64(head_page, next_entry_offset, garbage),
                          [pgs EXCEPT ![list.head_page_id] =
                              SetNextEntryOffset(next_entry_offset, head_page)],
                          list,
                          ~InPage(next_entry_offset, 8))

\* mutant of PushHasRoom: off-by-one capacity check
PushHasRoom_Le(next_entry_offset) == next_entry_offset <= PageSize

\* Push, line 119: room for another entry in the head page
PushHasRoom(next_entry_offset) == next_entry_offset < PageSize

\* mutant of PushNewHeadPage: the new head is set up as holding one entry
PushNewHeadPage_OneEntry(page, head_page_id) ==
    SetNextPageId64(head_page_id,
                    SetNextEntryOffset(kFirstEntryOffset + kEntrySize, page))

\* mutant of PushNewHeadPage: the old head is not chained behind the new one
PushNewHeadPage_NoLink(page, head_page_id) ==
    SetNextPageId64(kInvalidPageId, SetNextEntryOffset(kFirstEntryOffset, page))

\* Push, lines 154-157: the pushed page is set up as an empty list page
PushNewHeadPage(page, head_page_id) ==
    SetNextPageId64(head_page_id, SetNextEntryOffset(kFirstEntryOffset, page))

\* mutant of PushNewTail: the tail is not set when the list gets its first page
PushNewTail_Never(head_page_id, tail_page_id, page_id) == tail_page_id

\* Push, lines 159-161
PushNewTail(head_page_id, tail_page_id, page_id) ==
    IF head_page_id = kInvalidPageId THEN page_id ELSE tail_page_id

\* Push, lines 139-172: the pushed page becomes the new head page
PushNewHead(pgs, list, page_id, io) ==
    IF StorePage(page_id, 2, io) # kSuccess
    THEN Ret(StorePage(page_id, 2, io), kInvalidPageId, pgs, list, FALSE)
    ELSE Ret(kSuccess, kInvalidPageId,
             [pgs EXCEPT ![page_id] = PushNewHeadPage(pgs[page_id], list.head_page_id)],
             [list EXCEPT !.head_page_id = page_id,
                          !.tail_page_id =
                              PushNewTail(list.head_page_id, list.tail_page_id, page_id)],
             FALSE)

PushCall(pgs, list, page_id, io) ==
    IF list.head_page_id # kInvalidPageId
    THEN IF StorePage(list.head_page_id, 1, io) # kSuccess
         THEN Ret(StorePage(list.head_page_id, 1, io), kInvalidPageId, pgs, list, FALSE)
         ELSE
           LET head_page == pgs[list.head_page_id]
               next_entry_offset == NextEntryOffset(head_page)
           IN IF PushHasRoom(next_entry_offset)
              THEN IF IsCorruptEntryOffset(next_entry_offset, PageSize)
                   THEN Ret(kDataCorrupted, kInvalidPageId, pgs, list, FALSE)
                   ELSE Ret(kSuccess, kInvalidPageId,
                            [pgs EXCEPT ![list.head_page_id] =
                                SetNextEntryOffset(
                                    next_entry_offset + kEntrySize,
                                    StoreUint64(page_id, head_page, next_entry_offset))],
                            list,
                            ~InPage(next_entry_offset, 8))
              ELSE PushNewHead(pgs, list, page_id, io)
    ELSE PushNewHead(pgs, list, page_id, io)

\* mutant of MergeHandles: this list's head moves to the other list's head
MergeHandles_MoveHead(lsts, this, other) ==
    [lsts EXCEPT ![other].was_merged = TRUE,
                 ![this].head_page_id =
                     IF is_empty(lsts[other]) THEN @ ELSE lsts[other].head_page_id]

\* Merge, line 183: the only handle field Merge writes is other->was_merged_
MergeHandles(lsts, this, other) == [lsts EXCEPT ![other].was_merged = TRUE]

\* Merge, lines 225-254 (step 1): the other list's tail page is linked to this
\* list's chain of full pages
MergeSplice(pgs, this_list, other_list) ==
    IF other_list.tail_page_id # other_list.head_page_id
    THEN [pgs EXCEPT ![other_list.tail_page_id] =
             SetNextPageId64(NextPageId64(pgs[this_list.head_page_id]), @)]
    ELSE pgs

\* Merge, lines 225-254: the head of the combined chain of full pages
MergeFullChainHead(pgs, this_list, other_list) ==
    IF other_list.tail_page_id # other_list.head_page_id
    THEN NextPageId64(pgs[other_list.head_page_id])
    ELSE NextPageId64(pgs[this_list.head_page_id])

\* mutant of MergeFits: off-by-one capacity check
MergeFits_Le(next_entry_offset, needed_space_minus_one_entry) ==
    next_entry_offset + needed_space_minus_one_entry <= PageSize

\* Merge, line 281: this list's head page has room for all the ids
MergeFits(next_entry_offset, needed_space_minus_one_entry) ==
    next_entry_offset + needed_space_minus_one_entry < PageSize

\* Merge, lines 287-296 and 322: this head page in the "fits" case
MergeFitsHeadPage(head_page, other_head_page, other_head_page_id) ==
    LET next_entry_offset == NextEntryOffset(head_page)
        needed == NextEntryOffset(other_head_page) - kFirstEntryOffset
    IN SetNextEntryOffset(
           next_entry_offset + kEntrySize + needed,
           CopySpan(other_head_page, kFirstEntryOffset,
                    StoreUint64(other_head_page_id, head_page, next_entry_offset),
                    next_entry_offset + kEntrySize, needed))

\* mutant of MergeFullOtherHeadPage: the topped-up page is not marked full
MergeFullOtherHeadPage_NotFull(head_page, other_head_page) ==
    LET other_next_entry_offset == NextEntryOffset(other_head_page)
        empty_space == PageSize - other_next_entry_offset
        new_next_entry_offset == NextEntryOffset(head_page) - empty_space
    IN CopySpan(head_page, new_next_entry_offset,
                other_head_page, other_next_entry_offset, empty_space)

\* Merge, lines 306-314: the other head page is topped up and marked full
MergeFullOtherHeadPage(head_page, other_head_page) ==
    LET other_next_entry_offset == NextEntryOffset(other_head_page)
        empty_space == PageSize - other_next_entry_offset
        new_next_entry_offset == NextEntryOffset(head_page) - empty_space
    IN SetNextEntryOffset(
           PageSize,
           CopySpan(head_page, new_next_entry_offset,
                    other_head_page, other_next_entry_offset, empty_space))

\* mutant of MergeShrunkHeadPage: the moved entries are not dropped from this
\* head page
MergeShrunkHeadPage_NoShrink(head_page, other_head_page, other_head_page_id) ==
    SetNextPageId64(other_head_page_id, head_page)

\* Merge, lines 310-322: this head page in the "does not fit" case
MergeShrunkHeadPage(head_page, other_head_page, other_head_page_id) ==
    LET empty_space == PageSize - NextEntryOffset(other_head_page)
    IN SetNextEntryOffset(NextEntryOffset(head_page) - empty_space,
                          SetNextPageId64(other_head_page_id, head_page))

MergeRet(status, pgs, oob, branch) ==
    [status |-> status, pages |-> pgs, oob |-> oob, branch |-> branch]

MergeCall(pgs, this_list, other_list, io) ==
    IF is_empty(other_list) THEN MergeRet(kSuccess, pgs, FALSE, "empty")
    ELSE IF StorePage(this_list.head_page_id, 1, io) # kSuccess
    THEN MergeRet(StorePage(this_list.head_page_id, 1, io), pgs, FALSE, "fetch")
    ELSE IF StorePage(other_list.head_page_id, 2, io) # kSuccess
    THEN MergeRet(StorePage(other_list.head_page_id, 2, io), pgs, FALSE, "fetch")
    ELSE IF /\ other_list.tail_page_id # other_list.head_page_id
            /\ StorePage(other_list.tail_page_id, 3, io) # kSuccess
    THEN MergeRet(StorePage(other_list.tail_page_id, 3, io), pgs, FALSE, "fetch")
    ELSE
      LET spliced == MergeSplice(pgs, this_list, other_list)
          head_page == spliced[this_list.head_page_id]
          other_head_page_id == other_list.head_page_id
          other_head_page == spliced[other_head_page_id]
          next_entry_offset == NextEntryOffset(head_page)
          other_next_entry_offset == NextEntryOffset(other_head_page)
          needed == other_next_entry_offset - kFirstEntryOffset
          empty_space == PageSize - other_next_entry_offset
      IN IF \/ IsCorruptEntryOffset(next_entry_offset, PageSize)
            \/ IsCorruptEntryOffset(other_next_entry_offset, PageSize)
         THEN MergeRet(kDataCorrupted, spliced, FALSE, "corrupt")
         ELSE IF MergeFits(next_entry_offset, needed)
         THEN MergeRet(kSuccess,
                  [spliced EXCEPT ![this_list.head_page_id] =
                      MergeFitsHeadPage(head_page, other_head_page, other_head_page_id)],
                  \/ ~InPage(next_entry_offset, 8)
                  \/ ~InPage(kFirstEntryOffset, needed)
                  \/ ~InPage(next_entry_offset + kEntrySize, needed),
                  "A")
         ELSE MergeRet(kSuccess,
                  [spliced EXCEPT
                      ![other_head_page_id] =
                          MergeFullOtherHeadPage(head_page, other_head_page),
                      ![this_list.head_page_id] =
                          MergeShrunkHeadPage(head_page, other_head_page,
                                              other_head_page_id)],
                  \/ ~InPage(next_entry_offset - empty_space, empty_space)
                  \/ ~InPage(other_next_entry_offset, empty_space),
                  "B")

\* ---- what a call asks of its collaborators -------------------------------
\* TransactionImpl::WillModifyPage(page) and a write through mutable_data()
Mark(page_id) == <<"WillModifyPage", page_id>>
Write(page_id) == <<"write", page_id>>

\* Pop, lines 86-88
PopModify(head_page_id) == <<Mark(head_page_id), Write(head_page_id)>>

\* Pop: the WillModifyPage calls and page writes, in program order
PopEvents(pgs, list, garbage, io) ==
    IF is_empty(list) \/ StorePage(list.head_page_id, 1, io) # kSuccess THEN <<>>
    ELSE LET head_page == pgs[list.head_page_id]
             raw == NextEntryOffset(head_page)
             next_entry_offset == PopEntryOffset(raw)
         IN IF raw = kFirstEntryOffset THEN <<>>
            ELSE IF IsCorruptEntryOffset(next_entry_offset, PageSize) THEN <<>>
            ELSE IF ~FitsSizeT(LoadUint64(head_page, next_entry_offset, garbage))
            THEN <<>>
            ELSE PopModify(list.head_page_id)

\* Pop, lines 33-34: the page ids passed to PagePool::StorePage
PopFetches(list) ==
    IF is_empty(list) THEN <<>> ELSE <<list.head_page_id>>

\* Push, lines 127-132
PushStoreEntry(head_page_id) ==
    <<Mark(head_page_id), Write(head_page_id), Write(head_page_id)>>

\* Push, lines 152-157
PushSetUpHead(page_id) == <<Mark(page_id), Write(page_id), Write(page_id)>>

\* Push: the head page is fetched and has room (lines 103-119)
PushStaysInHead(pgs, list, io) ==
    /\ list.head_page_id # kInvalidPageId
    /\ StorePage(list.head_page_id, 1, io) = kSuccess
    /\ PushHasRoom(NextEntryOffset(pgs[list.head_page_id]))

\* Push: the WillModifyPage calls and page writes, in program order
PushEvents(pgs, list, page_id, io) ==
    IF list.head_page_id # kInvalidPageId
       /\ StorePage(list.head_page_id, 1, io) # kSuccess
    THEN <<>>
    ELSE IF PushStaysInHead(pgs, list, io)
    THEN IF IsCorruptEntryOffset(NextEntryOffset(pgs[list.head_page_id]), PageSize)
         THEN <<>>
         ELSE PushStoreEntry(list.head_page_id)
    ELSE IF StorePage(page_id, 2, io) # kSuccess THEN <<>>
    ELSE PushSetUpHead(page_id)

\* Push, lines 106-107 and 144-145: the page ids passed to StorePage
PushFetches(pgs, list, page_id, io) ==
    IF list.head_page_id = kInvalidPageId THEN <<page_id>>
    ELSE IF StorePage(list.head_page_id, 1, io) # kSuccess
            \/ PushStaysInHead(pgs, list, io)
    THEN <<list.head_page_id>>
    ELSE <<list.head_page_id, page_id>>

\* Merge, lines 246-248
MergeSpliceEvents(other_list) ==
    IF other_list.tail_page_id # other_list.head_page_id
    THEN <<Mark(other_list.tail_page_id), Write(other_list.tail_page_id)>>
    ELSE <<>>

\* Merge, lines 274, 287-296 and 322
MergeFitsEvents(head_page_id) ==
    <<Mark(head_page_id), Write(head_page_id), Write(head_page_id),
      Write(head_page_id)>>

\* mutant of MergeFullEvents: the other head page is marked after its first
\* write
MergeFullEvents_LateMark(head_page_id, other_head_page_id) ==
    <<Mark(head_page_id), Write(other_head_page_id),
      Mark(other_head_page_id), Write(other_head_page_id),
      Write(head_page_id), Write(head_page_id)>>

\* Merge, lines 274, 301-318 and 322
MergeFullEvents(head_page_id, other_head_page_id) ==
    <<Mark(head_page_id), Mark(other_head_page_id),
      Write(other_head_page_id), Write(other_head_page_id),
      Write(head_page_id), Write(head_page_id)>>

\* Merge: the WillModifyPage calls and page writes, in program order
\* mutant of MergeEvents: the other list's tail page is marked before its
\* fetch is known to have succeeded
MergeEvents_EarlyMark(pgs, this_list, other_list, io) ==
    LET r == MergeCall(pgs, this_list, other_list, io)
    IN IF r.branch = "empty" THEN <<>>
       ELSE MergeSpliceEvents(other_list) \o
            (IF r.branch = "A" THEN MergeFitsEvents(this_list.head_page_id)
             ELSE IF r.branch = "B"
             THEN MergeFullEvents(this_list.head_page_id, other_list.head_page_id)
             ELSE <<>>)

MergeEvents(pgs, this_list, other_list, io) ==
    LET r == MergeCall(pgs, this_list, other_list, io)
    IN IF r.branch \in {"empty", "fetch"} THEN <<>>
       ELSE MergeSpliceEvents(other_list) \o
            (IF r.branch = "A" THEN MergeFitsEvents(this_list.head_page_id)
             ELSE IF r.branch = "B"
             THEN MergeFullEvents(this_list.head_page_id, other_list.head_page_id)
             ELSE <<>>)

\* Merge, lines 193-194, 206-207 and 236-237: the page ids passed to StorePage
MergeFetches(this_list, other_list, io) ==
    IF is_empty(other_list) THEN <<>>
    ELSE IF StorePage(this_list.head_page_id, 1, io) # kSuccess
    THEN <<this_list.head_page_id>>
    ELSE IF StorePage(other_list.head_page_id, 2, io) # kSuccess
            \/ other_list.tail_page_id = other_list.head_page_id
    THEN <<this_list.head_page_id, other_list.head_page_id>>
    ELSE <<this_list.head_page_id, other_list.head_page_id,
           other_list.tail_page_id>>

\* ---- the state machine ---------------------------------------------------
NoCall == [op |-> "none", list |-> 0, arg |-> 0, status |-> kSuccess,
           page_id |-> kInvalidPageId, oob |-> FALSE, branch |-> "none",
           pre_head |-> kInvalidPageId, pre_tail |-> kInvalidPageId,
           events |-> <<>>, fetched |-> <<>>]

InitWith(held) ==
    /\ pages = [p \in PageIds |->
                  [next_page_id |-> kInvalidPageId,
                   next_entry_offset |-> kFirstEntryOffset,
                   entry |-> [s \in EntrySlots |-> 0]]]
    /\ lists = [l \in Lists |->
                  [head_page_id |-> kInvalidPageId,
                   tail_page_id |-> kInvalidPageId,
                   was_merged |-> FALSE]]
    /\ owned = held
    /\ pops = 0
    /\ hist = [l \in Lists |-> [net |-> 0, merged |-> FALSE, stack |-> <<>>]]
    /\ corrupted = {}
    /\ last = NoCall
    /\ prev = NoCall

Init == InitWith(PageIds)

\* ids an out-of-bounds load may produce
GarbageIds == PageIds \cup {kInvalidPageId}

Held(page_id) == IF page_id \in PageIds THEN {page_id} ELSE {}

Called(op, l, arg, r, branch, events, fetched) ==
    /\ last' = [op |-> op, list |-> l, arg |-> arg, status |-> r.status,
                page_id |-> r.page_id, oob |-> r.oob, branch |-> branch,
                pre_head |-> lists[l].head_page_id,
                pre_tail |-> lists[l].tail_page_id,
                events |-> events, fetched |-> fetched]
    /\ prev' = IF last.op = "Push" THEN last ELSE NoCall

PopWith(l, garbage, io) ==
    /\ ~lists[l].was_merged
    /\ is_empty(lists[l]) \/ pops < MaxPops
    /\ pops' = IF is_empty(lists[l]) THEN pops ELSE pops + 1
    /\ LET r == PopCall(pages, lists[l], garbage, io)
       IN /\ pages' = r.pages
          /\ lists' = [lists EXCEPT ![l] = r.list]
          /\ owned' = owned \cup Held(r.page_id)
          /\ hist' = IF r.status = kSuccess /\ r.page_id # kInvalidPageId
                     THEN [hist EXCEPT ![l].net = @ - 1,
                                       ![l].stack = IF @ = <<>> THEN @ ELSE Tail(@)]
                     ELSE hist
          /\ Called("Pop", l, 0, r, "none",
                    PopEvents(pages, lists[l], garbage, io), PopFetches(lists[l]))
    /\ UNCHANGED corrupted

Pop(l) == \E garbage \in GarbageIds : PopWith(l, garbage, 0)

\* the caller frees the lowest page id it holds
Freeable == {p \in owned : \A q \in owned : p <= q}

PushWith(l, page_id, io) ==
    /\ ~lists[l].was_merged
    /\ page_id \in Freeable
    /\ LET r == PushCall(pages, lists[l], page_id, io)
       IN /\ pages' = r.pages
          /\ lists' = [lists EXCEPT ![l] = r.list]
          /\ owned' = IF r.status = kSuccess THEN owned \ {page_id} ELSE owned
          /\ hist' = IF r.status = kSuccess
                     THEN [hist EXCEPT ![l].net = @ + 1,
                                       ![l].stack = <<page_id>> \o @]
                     ELSE hist
          /\ Called("Push", l, page_id, r, "none",
                    PushEvents(pages, lists[l], page_id, io),
                    PushFetches(pages, lists[l], page_id, io))
    /\ UNCHANGED <<pops, corrupted>>

Push(l, page_id) == PushWith(l, page_id, 0)

MergeWith(this, other, io) ==
    /\ this # other
    /\ ~lists[this].was_merged
    /\ ~lists[other].was_merged
    /\ LET r == MergeCall(pages, lists[this], lists[other], io)
       IN /\ pages' = r.pages
          /\ lists' = MergeHandles(lists, this, other)
          /\ Called("Merge", this, other,
                    [status |-> r.status, page_id |-> kInvalidPageId,
                     oob |-> r.oob], r.branch,
                    MergeEvents(pages, lists[this], lists[other], io),
                    MergeFetches(lists[this], lists[other], io))
    /\ hist' = [l \in Lists |->
                  IF l \in {this, other}
                  THEN [hist[l] EXCEPT !.merged = TRUE, !.stack = <<>>]
                  ELSE hist[l]]
    /\ UNCHANGED <<owned, pops, corrupted>>

Merge(this, other) == MergeWith(this, other, 0)

Next ==
    \/ \E l \in Lists : Pop(l)
    \/ \E l \in Lists : \E page_id \in PageIds : Push(l, page_id)
    \/ \E this \in Lists : \E other \in Lists : Merge(this, other)

Spec == Init /\ [][Next]_vars

\* ---- pages corrupted from outside ----------------------------------------
\* offsets IsCorruptEntryOffset rejects: below the header, unaligned, above
\* the page
CorruptOffsets ==
    {v \in {0, kEntrySize, kFirstEntryOffset + 4, PageSize + 4,
            PageSize + kEntrySize, PageSize + 2 * kEntrySize, kInvalidPageId} :
        IsCorruptEntryOffset(v, PageSize)}

\* the head page of a list is overwritten on disk, once in a run
Corrupt(l, v) ==
    /\ corrupted = {}
    /\ ~lists[l].was_merged
    /\ ~is_empty(lists[l])
    /\ pages' = [pages EXCEPT ![lists[l].head_page_id].next_entry_offset = v]
    /\ corrupted' = {lists[l].head_page_id}
    /\ last' = [NoCall EXCEPT !.op = "Corrupt", !.list = l, !.arg = v]
    /\ prev' = NoCall
    /\ UNCHANGED <<lists, owned, pops, hist>>

InitCorrupt == InitWith(1..HeldPages)

NextCorrupt ==
    \/ Next
    \/ \E l \in Lists : \E v \in CorruptOffsets : Corrupt(l, v)

SpecCorrupt == InitCorrupt /\ [][NextCorrupt]_vars

\* ---- failing page fetches and ids beyond size_t --------------------------
\* a 64-bit id that does not fit size_t
TooLargeId == SizeMod

\* the head page of a list is overwritten on disk, once in a run: its
\* next_page_id, or the entry on top of it, becomes an id beyond size_t
CorruptId(l, field) ==
    /\ corrupted = {}
    /\ ~lists[l].was_merged
    /\ ~is_empty(lists[l])
    /\ LET head_page_id == lists[l].head_page_id
           top == NextEntryOffset(pages[head_page_id]) - kEntrySize
       IN IF field = "next_page_id"
          THEN pages' = [pages EXCEPT ![head_page_id] =
                            SetNextPageId64(TooLargeId, @)]
          ELSE /\ top \in EntrySlots
               /\ pages' = [pages EXCEPT ![head_page_id] =
                                StoreUint64(TooLargeId, @, top)]
    /\ corrupted' = {lists[l].head_page_id}
    /\ last' = [NoCall EXCEPT !.op = "CorruptId", !.list = l]
    /\ prev' = NoCall
    /\ UNCHANGED <<lists, owned, pops, hist>>

\* calls during which the page pool fails a fetch; fetches fail in runs
\* whose pages have not been overwritten
PopFail(l) ==
    /\ corrupted = {}
    /\ \E garbage \in GarbageIds : PopWith(l, garbage, 1)
    /\ last'.status = kIoError

PushFail(l, page_id) ==
    /\ corrupted = {}
    /\ \E io \in 1..2 : PushWith(l, page_id, io)
    /\ last'.status = kIoError

MergeFail(this, other) ==
    /\ corrupted = {}
    /\ \E io \in 1..3 : MergeWith(this, other, io)
    /\ last'.status = kIoError

\* the store after the caller has pushed pages 1..n onto a new list
RECURSIVE Pushed(_)
Pushed(n) ==
    IF n = 0
    THEN Ret(kSuccess, kInvalidPageId,
             [p \in PageIds |->
                 [next_page_id |-> kInvalidPageId,
                  next_entry_offset |-> kFirstEntryOffset,
                  entry |-> [s \in EntrySlots |-> 0]]],
             [head_page_id |-> kInvalidPageId,
              tail_page_id |-> kInvalidPageId,
              was_merged |-> FALSE],
             FALSE)
    ELSE PushCall(Pushed(n - 1).pages, Pushed(n - 1).list, n, 0)

\* pages that make a list of two pages: a full page behind an empty head
TwoPages == EntriesPerPage + 2

\* runs with faults start with list 2 holding two pages and list 1 empty
InitFault ==
    /\ pages = Pushed(TwoPages).pages
    /\ lists = [l \in Lists |-> IF l = 2 THEN Pushed(TwoPages).list
                                ELSE Pushed(0).list]
    /\ owned = PageIds \ (1..TwoPages)
    /\ pops = 0
    /\ hist = [l \in Lists |->
                 IF l = 2
                 THEN [net |-> TwoPages, merged |-> FALSE,
                       stack |-> [i \in 1..TwoPages |-> TwoPages + 1 - i]]
                 ELSE [net |-> 0, merged |-> FALSE, stack |-> <<>>]]
    /\ corrupted = {}
    /\ last = NoCall
    /\ prev = NoCall

\* a failed call ends the run: the caller abandons the transaction
Running == last.status = kSuccess

NextFault ==
    \/ \E l \in Lists : Running /\ Pop(l)
    \/ \E l \in Lists : \E page_id \in PageIds : Running /\ Push(l, page_id)
    \/ \E this \in Lists : \E other \in Lists : Running /\ Merge(this, other)
    \/ \E l \in Lists : \E v \in CorruptOffsets : Running /\ Corrupt(l, v)
    \/ \E l \in Lists : \E field \in {"next_page_id", "entry"} :
           Running /\ CorruptId(l, field)
    \/ \E l \in Lists : Running /\ PopFail(l)
    \/ \E l \in Lists : \E page_id \in PageIds : Running /\ PushFail(l, page_id)
    \/ \E this \in Lists : \E other \in Lists : Running /\ MergeFail(this, other)

SpecFault == InitFault /\ [][NextFault]_vars

\* ---- derived notions -----------------------------------------------------
Range(seq) == {seq[i] : i \in DOMAIN seq}
SeqToBag(seq) ==
    [x \in Range(seq) |-> Cardinality({i \in DOMAIN seq : seq[i] = x})]

\* the ids Pop returns when the list is popped until it is empty
DrainFuel == NumPages * (EntriesPerPage + 1) + 1
RECURSIVE Drain(_, _, _)
Drain(pgs, list, fuel) ==
    IF fuel = 0 \/ is_empty(list) THEN <<>>
    ELSE LET r == PopCall(pgs, list, kInvalidPageId, 0)
         IN IF r.status # kSuccess THEN <<>>
            ELSE <<r.page_id>> \o Drain(r.pages, r.list, fuel - 1)
Drained(pgs, list) == SeqToBag(Drain(pgs, list, DrainFuel))

\* the pages reachable from a head page id through next_page_id links
RECURSIVE Chain(_, _, _)
Chain(pgs, page_id, fuel) ==
    IF fuel = 0 \/ page_id \notin PageIds THEN <<>>
    ELSE <<page_id>> \o Chain(pgs, NextPageId64(pgs[page_id]), fuel - 1)
ChainOf(l) == Chain(pages, lists[l].head_page_id, NumPages + 1)

\* the step is a call of op on list l
CallOn(op, l) == last'.op = op /\ last'.list = l

\* ---- C1 ------------------------------------------------------------------
\* C1: after a successful this.Merge(other), popping this until it is empty
\* returns exactly the multiset union of the ids that fully popping this and
\* fully popping other would have returned before the merge.
MergeConservation ==
    [][\A this \in Lists :
         (CallOn("Merge", this) /\ last'.status = kSuccess) =>
            Drained(pages', lists'[this]) =
                Drained(pages, lists[this]) (+) Drained(pages, lists[last'.arg])]_vars

\* ---- C2 ------------------------------------------------------------------
HeadCorrupt(l) ==
    /\ ~is_empty(lists[l])
    /\ IsCorruptEntryOffset(NextEntryOffset(pages[lists[l].head_page_id]), PageSize)

\* C2: when the head page of a list holds a next_entry_offset that is
\* unaligned or outside [kFirstEntryOffset, page_size], every Pop and Push on
\* that list and every Merge with that page as either head page returns the
\* data-corrupted status.
CorruptionDetected ==
    [][\A l \in Lists :
         /\ (HeadCorrupt(l) /\ (CallOn("Pop", l) \/ CallOn("Push", l)))
                => last'.status = kDataCorrupted
         /\ (/\ CallOn("Merge", l)
             /\ ~is_empty(lists[l]) /\ ~is_empty(lists[last'.arg])
             /\ (HeadCorrupt(l) \/ HeadCorrupt(last'.arg)))
                => last'.status = kDataCorrupted]_vars

\* ---- C3 ------------------------------------------------------------------
\* C3: whatever next_entry_offset a head page holds, Pop, Push and Merge never
\* read or write a byte range that is not wholly inside the page.
NoOutOfBoundsAccess == ~last.oob

\* ---- C4 ------------------------------------------------------------------
\* C4: every page reachable from a live list's head, other than the head page
\* itself, has next_entry_offset == page_size.
OnlyHeadPartial ==
    \A l \in Lists :
        ~lists[l].was_merged =>
            \A i \in 2..Len(ChainOf(l)) :
                NextEntryOffset(pages[ChainOf(l)[i]]) = PageSize

OnlyHeadPartialWitness ==
    /\ last.op = "Merge" /\ last.status = kSuccess /\ last.branch = "B"
    /\ Len(ChainOf(last.list)) >= 3
    /\ NextEntryOffset(pages[lists[last.list].head_page_id]) < PageSize

\* ---- C5 ------------------------------------------------------------------
\* C5: a list used only by Push and Pop, on which as many Pops returned an id
\* as there were Pushes, has head_page_id and tail_page_id both
\* kInvalidPageId; is_empty() holds exactly when head_page_id is
\* kInvalidPageId.
Emptying ==
    \A l \in Lists :
        /\ (~hist[l].merged /\ hist[l].net = 0) =>
              /\ lists[l].head_page_id = kInvalidPageId
              /\ lists[l].tail_page_id = kInvalidPageId
        /\ is_empty(lists[l]) <=> lists[l].head_page_id = kInvalidPageId

EmptyingWitness ==
    /\ last.op = "Pop" /\ last.page_id # kInvalidPageId
    /\ pops >= 2
    /\ \A l \in Lists : ~hist[l].merged /\ hist[l].net = 0

\* ---- C6 ------------------------------------------------------------------
\* C6: on an empty list, Push(x) followed immediately by Pop() returns
\* (success, x).
RoundTrip ==
    [][\A l \in Lists :
         (/\ last.op = "Push" /\ last.list = l /\ last.status = kSuccess
          /\ last.pre_head = kInvalidPageId
          /\ CallOn("Pop", l))
            => (last'.status = kSuccess /\ last'.page_id = last.arg)]_vars

RoundTripWitness ==
    /\ last.op = "Pop" /\ last.status = kSuccess
    /\ prev.op = "Push" /\ prev.list = last.list /\ prev.status = kSuccess
    /\ prev.pre_head = kInvalidPageId
    /\ last.page_id = prev.arg

\* ---- C7 ------------------------------------------------------------------
\* C7: a Push that finds a free slot in the head page stores its id there and
\* leaves head_page_id and every other page alone; a Push that finds
\* next_entry_offset == page_size makes the pushed page the head, with the
\* former head as its next_page_id.
CapacityBoundary ==
    [][\A l \in Lists :
         (CallOn("Push", l) /\ last'.status = kSuccess /\ ~is_empty(lists[l])) =>
            LET h == lists[l].head_page_id
                off == NextEntryOffset(pages[h])
            IN IF off < PageSize
               THEN /\ lists'[l].head_page_id = h
                    /\ pages'[h].entry[off] = last'.arg
                    /\ NextEntryOffset(pages'[h]) = off + kEntrySize
                    /\ \A p \in PageIds \ {h} : pages'[p] = pages[p]
               ELSE /\ lists'[l].head_page_id # h
                    /\ NextPageId64(pages'[lists'[l].head_page_id]) = h
                    /\ pages'[h] = pages[h]
                    /\ Len(Chain(pages', lists'[l].head_page_id, NumPages + 1)) =
                           Len(ChainOf(l)) + 1]_vars

CapacityBoundaryWitness ==
    /\ last.op = "Push" /\ last.status = kSuccess
    /\ prev.op = "Push" /\ prev.list = last.list
    /\ prev.pre_head # kInvalidPageId
    /\ prev.pre_head = last.pre_head
    /\ lists[last.list].head_page_id = last.arg
    /\ NextPageId64(pages[last.arg]) = last.pre_head
    /\ NextEntryOffset(pages[last.pre_head]) = PageSize

\* ---- C8 ------------------------------------------------------------------
\* C8: when the head page holds zero entries, Pop returns the head page's own
\* id, sets head_page_id to that page's next_page_id and writes no page; when
\* that successor is kInvalidPageId it also sets tail_page_id to
\* kInvalidPageId.
PopEmptiesPage ==
    [][\A l \in Lists :
         (/\ CallOn("Pop", l) /\ ~is_empty(lists[l])
          /\ NextEntryOffset(pages[lists[l].head_page_id]) = kFirstEntryOffset) =>
            LET h == lists[l].head_page_id
            IN /\ last'.status = kSuccess
               /\ last'.page_id = h
               /\ lists'[l].head_page_id = NextPageId64(pages[h])
               /\ pages' = pages
               /\ NextPageId64(pages[h]) = kInvalidPageId =>
                      lists'[l].tail_page_id = kInvalidPageId
               /\ NextPageId64(pages[h]) # kInvalidPageId =>
                      lists'[l].tail_page_id = lists[l].tail_page_id]_vars

PopEmptiesPageWitness ==
    /\ last.op = "Pop" /\ last.status = kSuccess
    /\ last.page_id = last.pre_head
    /\ last.page_id # kInvalidPageId
    /\ lists[last.list].head_page_id # kInvalidPageId

\* ---- C9 ------------------------------------------------------------------
\* the list's head page is full
HeadFull(l) ==
    /\ ~is_empty(lists[l])
    /\ NextEntryOffset(pages[lists[l].head_page_id]) = PageSize

\* call was a Push on the non-empty list l that found the head page full: it
\* left the list with another head page, head_after
PushedOntoFull(call, l, head_after) ==
    /\ call.op = "Push" /\ call.list = l /\ call.status = kSuccess
    /\ call.pre_head # kInvalidPageId
    /\ head_after # call.pre_head

\* C9 as stated: when Push(x) finds the head page full, the new head page is
\* a page other than x holding x as its single entry; the next Pop returns x
\* and leaves head_page_id on the new page; the Pop after that returns the new
\* head page's id and moves head_page_id back to the former head.
PushFullStoresEntry ==
    [][\A l \in Lists :
         /\ (CallOn("Push", l) /\ last'.status = kSuccess /\ HeadFull(l)) =>
               LET n == lists'[l].head_page_id
               IN /\ n # lists[l].head_page_id
                  /\ n # last'.arg
                  /\ NextEntryOffset(pages'[n]) = kFirstEntryOffset + kEntrySize
                  /\ pages'[n].entry[kFirstEntryOffset] = last'.arg
         /\ (PushedOntoFull(last, l, lists[l].head_page_id) /\ CallOn("Pop", l)) =>
               /\ last'.page_id = last.arg
               /\ lists'[l].head_page_id = lists[l].head_page_id
         /\ (PushedOntoFull(prev, l, last.pre_head) /\ last.op = "Pop" /\ last.list = l
             /\ CallOn("Pop", l)) =>
               /\ last'.page_id = lists[l].head_page_id
               /\ lists'[l].head_page_id = prev.pre_head]_vars

\* C9 amended: when Push(x) finds the head page full, page x itself becomes
\* the head, holding zero entries and the former head as its next_page_id;
\* the next Pop returns x, the head page's own id, writes no page and moves
\* head_page_id back to the former head.
PushFullMakesPushedPageHead ==
    [][\A l \in Lists :
         /\ (CallOn("Push", l) /\ last'.status = kSuccess /\ HeadFull(l)) =>
               /\ lists'[l].head_page_id = last'.arg
               /\ last'.arg # lists[l].head_page_id
               /\ NextEntryOffset(pages'[last'.arg]) = kFirstEntryOffset
               /\ NextPageId64(pages'[last'.arg]) = lists[l].head_page_id
               /\ \A p \in PageIds \ {last'.arg} : pages'[p] = pages[p]
         /\ (PushedOntoFull(last, l, lists[l].head_page_id) /\ CallOn("Pop", l)) =>
               /\ last'.status = kSuccess
               /\ last'.page_id = last.arg
               /\ lists'[l].head_page_id = last.pre_head
               /\ pages' = pages]_vars

PushFullMakesPushedPageHeadWitness ==
    /\ last.op = "Pop" /\ last.status = kSuccess
    /\ PushedOntoFull(prev, last.list, last.pre_head)
    /\ last.pre_head = prev.arg
    /\ last.page_id = prev.arg
    /\ lists[last.list].head_page_id = prev.pre_head

\* ---- C10 -----------------------------------------------------------------
\* C10: whatever the shapes of the two lists and whatever status is returned,
\* this.head_page_id after this.Merge(other) equals this.head_page_id before.
MergeKeepsHead ==
    [][\A this \in Lists :
         CallOn("Merge", this) =>
            lists'[this].head_page_id = lists[this].head_page_id]_vars

MergeKeepsHeadWitness ==
    /\ last.op = "Merge" /\ last.status = kSuccess /\ last.branch = "B"
    /\ lists[last.list].head_page_id = last.pre_head
    /\ NextPageId64(pages[last.pre_head]) = lists[last.arg].head_page_id
    /\ lists[last.arg].head_page_id # lists[last.arg].tail_page_id

\* ---- C11 -----------------------------------------------------------------
Written(events) == {e[2] : e \in {x \in Range(events) : x[1] = "write"}}
FirstWrite(events, p) ==
    CHOOSE i \in DOMAIN events :
        /\ events[i] = Write(p)
        /\ \A j \in DOMAIN events : events[j] = Write(p) => i <= j

\* C11: within each Pop, Push and Merge call, every page the call writes has
\* had WillModifyPage issued for it exactly once in that call, before the
\* first write to it.
WriteTracking ==
    \A p \in Written(last.events) :
        /\ Cardinality({i \in DOMAIN last.events : last.events[i] = Mark(p)}) = 1
        /\ \E i \in DOMAIN last.events :
              /\ last.events[i] = Mark(p)
              /\ i < FirstWrite(last.events, p)

WriteTrackingWitness ==
    /\ last.op = "Merge" /\ last.status = kSuccess /\ last.branch = "B"
    /\ Cardinality(Written(last.events)) = 3

\* ---- C12 -----------------------------------------------------------------
\* tail_page_id is kInvalidPageId exactly when the list is empty, and
\* otherwise the last page of the chain from head_page_id
TailTracked(pgs, list) ==
    IF is_empty(list) THEN list.tail_page_id = kInvalidPageId
    ELSE LET chain == Chain(pgs, list.head_page_id, NumPages + 1)
         IN /\ list.tail_page_id # kInvalidPageId
            /\ list.tail_page_id = chain[Len(chain)]
            /\ NextPageId64(pgs[list.tail_page_id]) = kInvalidPageId

\* C12 as stated: in every state reached by successful Push and Pop calls on
\* a list and Merge calls with it as the target, the list's tail_page_id is
\* kInvalidPageId exactly when it is empty and otherwise the last page of its
\* chain.
TailTracking ==
    \A l \in Lists : ~lists[l].was_merged => TailTracked(pages, lists[l])

\* C12 amended: tail tracking is kept by Push and Pop calls on the list and
\* by Merge calls with it as the target that find other empty or take the
\* 'fits' branch; Merge never writes this list's tail_page_id, so the 'does
\* not fit' branch, which links other's head page behind this head, is
\* excluded.
TailTrackingByPushPop ==
    /\ \A l \in Lists : TailTracked(pages, lists[l])
    /\ [][\A l \in Lists :
            (/\ TailTracked(pages, lists[l])
             /\ ~lists'[l].was_merged
             /\ ~(CallOn("Merge", l) /\ last'.branch = "B"))
               => TailTracked(pages', lists'[l])]_vars

TailTrackingByPushPopWitness ==
    /\ last.op = "Merge" /\ last.status = kSuccess /\ last.branch = "A"
    /\ Len(ChainOf(last.list)) >= 2
    /\ lists[last.list].tail_page_id # lists[last.list].head_page_id
    /\ TailTracked(pages, lists[last.list])

\* ---- C13 -----------------------------------------------------------------
\* every page of the sequence is in the chain
Reaches(chain, page_ids) == \A i \in DOMAIN page_ids : page_ids[i] \in Range(chain)
Position(chain, p) == CHOOSE i \in DOMAIN chain : chain[i] = p

\* C13: when other has more than one page and Merge takes the 'fits' branch,
\* after a successful Merge every page that followed other's head page is
\* reachable from this.head_page_id, ahead of the pages of this list's own
\* former full chain, which also remain reachable.
MergeFitsKeepsChain ==
    [][\A this \in Lists :
         (/\ CallOn("Merge", this) /\ last'.status = kSuccess
          /\ last'.branch = "A"
          /\ lists[last'.arg].tail_page_id # lists[last'.arg].head_page_id) =>
            LET others == Tail(ChainOf(last'.arg))
                mine == Tail(ChainOf(this))
                chain == Chain(pages', lists'[this].head_page_id, NumPages + 1)
            IN /\ Reaches(chain, others)
               /\ Reaches(chain, mine)
               /\ \A i \in DOMAIN others : \A j \in DOMAIN mine :
                     Position(chain, others[i]) < Position(chain, mine[j])]_vars

\* ---- C14 -----------------------------------------------------------------
\* C14: when Merge takes the 'does not fit' branch and succeeds, for other of
\* one page as well as of several, the next_page_id of other's head page is
\* the combined full-chain head of step 1, and every page of this list's
\* former full chain and of other's former chain is reachable from
\* this.head_page_id.
MergeFullKeepsChain ==
    [][\A this \in Lists :
         (CallOn("Merge", this) /\ last'.status = kSuccess /\ last'.branch = "B") =>
            LET other_list == lists[last'.arg]
                chain == Chain(pages', lists'[this].head_page_id, NumPages + 1)
            IN /\ NextPageId64(pages'[other_list.head_page_id]) =
                      MergeFullChainHead(pages, lists[this], other_list)
               /\ Reaches(chain, ChainOf(last'.arg))
               /\ Reaches(chain, ChainOf(this))]_vars

\* ---- C15 -----------------------------------------------------------------
\* C15: with valid offsets t (this head) and o (other head) and
\* S = o - kFirstEntryOffset, Merge takes the 'fits' branch exactly when
\* t + S + kEntrySize <= page_size; then this head ends with offset
\* t + kEntrySize + S, holding its old entries, other's head page id and
\* other's S bytes of entries, and other's head page is not written.
\* Otherwise other's head ends full, holding this head's highest
\* page_size - o entry bytes above its own, this head ends with offset
\* t - (page_size - o) >= kFirstEntryOffset and next_page_id other's head.
HeadMergeArithmetic ==
    [][\A this \in Lists :
         (CallOn("Merge", this) /\ last'.status = kSuccess
          /\ last'.branch \in {"A", "B"}) =>
            LET h == lists[this].head_page_id
                oh == lists[last'.arg].head_page_id
                t == NextEntryOffset(pages[h])
                o == NextEntryOffset(pages[oh])
                S == o - kFirstEntryOffset
            IN /\ (last'.branch = "A") <=> (t + S + kEntrySize <= PageSize)
               /\ last'.branch = "A" =>
                     /\ NextEntryOffset(pages'[h]) = t + kEntrySize + S
                     /\ \A e \in EntrySlots : e < t =>
                           pages'[h].entry[e] = pages[h].entry[e]
                     /\ pages'[h].entry[t] = oh
                     /\ \A e \in EntrySlots : e < o =>
                           pages'[h].entry[t + kEntrySize + (e - kFirstEntryOffset)] =
                               pages[oh].entry[e]
                     /\ NextPageId64(pages'[h]) = NextPageId64(pages[h])
                     /\ pages'[oh] = pages[oh]
                     /\ Write(oh) \notin Range(last'.events)
               /\ last'.branch = "B" =>
                     /\ NextEntryOffset(pages'[oh]) = PageSize
                     /\ NextEntryOffset(pages'[h]) = t - (PageSize - o)
                     /\ NextEntryOffset(pages'[h]) >= kFirstEntryOffset
                     /\ \A e \in EntrySlots : e < o =>
                           pages'[oh].entry[e] = pages[oh].entry[e]
                     /\ \A e \in EntrySlots : e >= o =>
                           pages'[oh].entry[e] =
                               pages[h].entry[t - (PageSize - o) + (e - o)]
                     /\ NextPageId64(pages'[h]) = oh]_vars

HeadMergeArithmeticWitness ==
    /\ last.op = "Merge" /\ last.status = kSuccess /\ last.branch = "A"
    /\ NextEntryOffset(pages[lists[last.arg].head_page_id]) > kFirstEntryOffset
    /\ NextEntryOffset(pages[last.pre_head]) = PageSize

\* ---- C16 -----------------------------------------------------------------
\* C16: with no outside corruption, every page has next_entry_offset within
\* [kFirstEntryOffset, page_size], a whole number of entries above the header.
OffsetsWellFormed ==
    \A p \in PageIds :
        /\ NextEntryOffset(pages[p]) >= kFirstEntryOffset
        /\ NextEntryOffset(pages[p]) <= PageSize
        /\ (NextEntryOffset(pages[p]) - kFirstEntryOffset) % kEntrySize = 0

OffsetsWellFormedWitness ==
    /\ last.op = "Merge" /\ last.status = kSuccess /\ last.branch = "B"
    /\ NextEntryOffset(pages[last.pre_head]) > kFirstEntryOffset
    /\ NextEntryOffset(pages[last.pre_head]) < PageSize

\* ---- C17 -----------------------------------------------------------------
\* C17: on a list used only by Push and Pop, each Pop returns the id of the
\* latest Push not yet matched by a Pop, or kInvalidPageId when there is
\* none; from any list state, Push(x) followed by Pop() returns x and
\* restores head_page_id and tail_page_id to their values before the Push.
LifoStack ==
    [][\A l \in Lists :
         /\ (CallOn("Pop", l) /\ ~hist[l].merged) =>
               /\ last'.status = kSuccess
               /\ last'.page_id = IF hist[l].stack = <<>> THEN kInvalidPageId
                                  ELSE Head(hist[l].stack)
         /\ (/\ last.op = "Push" /\ last.list = l /\ last.status = kSuccess
             /\ CallOn("Pop", l)) =>
               /\ last'.status = kSuccess
               /\ last'.page_id = last.arg
               /\ lists'[l].head_page_id = last.pre_head
               /\ lists'[l].tail_page_id = last.pre_tail]_vars

LifoStackWitness ==
    /\ last.op = "Pop" /\ last.status = kSuccess
    /\ prev.op = "Push" /\ prev.list = last.list
    /\ last.page_id = prev.arg
    /\ ~hist[last.list].merged
    /\ Len(hist[last.list].stack) >= 3
    /\ lists[last.list].head_page_id = prev.pre_head
    /\ lists[last.list].tail_page_id = prev.pre_tail

\* ---- C18 -----------------------------------------------------------------
\* C18: every page id a Pop, Push or Merge call passes to the page pool's
\* StorePage is different from kInvalidPageId.
NoSentinelFetch == kInvalidPageId \notin Range(last.fetched)

\* ---- C19 -----------------------------------------------------------------
\* the ids a list page holds as entries, lowest slot first
EntriesOf(page) ==
    [i \in 1..((NextEntryOffset(page) - kFirstEntryOffset) \div kEntrySize) |->
        page.entry[kFirstEntryOffset + kEntrySize * (i - 1)]]

\* the ids of a list: each page of its chain and the entries it holds
RECURSIVE IdsFrom(_, _)
IdsFrom(pgs, chain) ==
    IF chain = <<>> THEN <<>>
    ELSE <<Head(chain)>> \o EntriesOf(pgs[Head(chain)]) \o IdsFrom(pgs, Tail(chain))
ListIds(l) == IdsFrom(pages, ChainOf(l))

Distinct(seq) == \A i, j \in DOMAIN seq : seq[i] = seq[j] => i = j

\* C19: the ids of the pages reachable from a live list's head together with
\* the entries those pages hold are pairwise distinct, and a Pop never
\* returns an id the caller already holds.
NoDoubleAllocation ==
    /\ [](\A l \in Lists : ~lists[l].was_merged => Distinct(ListIds(l)))
    /\ [][\A l \in Lists :
            (CallOn("Pop", l) /\ last'.page_id # kInvalidPageId) =>
                last'.page_id \notin owned]_vars

NoDoubleAllocationWitness ==
    /\ last.op = "Merge" /\ last.status = kSuccess /\ last.branch = "B"
    /\ Len(ChainOf(last.list)) >= 3
    /\ Len(ListIds(last.list)) >= NumPages

\* ---- C20 -----------------------------------------------------------------
\* C20: when Pop, Push or Merge returns a page-fetch failure, and when Pop or
\* Push returns kDataCorrupted or kDatabaseTooLarge, no page byte has been
\* written, no WillModifyPage has been issued, and head_page_id and
\* tail_page_id of the lists involved are what they were before the call.
FailedCallChangesNothing ==
    [][\A l \in Lists :
         (/\ last'.list = l
          /\ \/ last'.op \in {"Pop", "Push", "Merge"} /\ last'.status = kIoError
             \/ /\ last'.op \in {"Pop", "Push"}
                /\ last'.status \in {kDataCorrupted, kDatabaseTooLarge}) =>
            /\ pages' = pages
            /\ last'.events = <<>>
            /\ lists'[l].head_page_id = lists[l].head_page_id
            /\ lists'[l].tail_page_id = lists[l].tail_page_id
            /\ last'.op = "Merge" =>
                  /\ lists'[last'.arg].head_page_id = lists[last'.arg].head_page_id
                  /\ lists'[last'.arg].tail_page_id = lists[last'.arg].tail_page_id]_vars

FailedCallChangesNothingWitness ==
    /\ last.op = "Merge" /\ last.status = kIoError
    /\ last.pre_head # kInvalidPageId
    /\ Len(last.fetched) = 3

====
